---- MODULE Spec2Model ----
(***************************************************************************)
(* Model of src/main.py: the Reddit collection-and-aggregation pipeline.   *)
(*                                                                         *)
(* Text is a sequence of string fragments.  Whitespace characters are      *)
(* always fragments of their own (" ", "\n"), every other fragment begins  *)
(* and ends with a non-whitespace character, and the texts that the code   *)
(* slices or measures by character (comment bodies, selftext) are          *)
(* sequences of one-character fragments.  Names of sources and artifacts   *)
(* are sequences of characters, so that glob matching and sorted() are     *)
(* computed character by character.                                        *)
(***************************************************************************)
EXTENDS Integers, Sequences, FiniteSets, TLC

VARIABLES
    cfg,         \* main: every required environment variable is set
    pc,          \* main: position in main()
    i,           \* main: index in the source list of the run() in progress
    rpc,         \* run: position inside run(SOURCES[i])
    posts,       \* run: local posts
    posts_text,  \* run: local posts_text
    summary,     \* run / main: local summary
    resp,        \* outcome of the last inference backend call of this run
    llm_in,      \* user message the inference backend received last
    ret,         \* return value of run() per source index (NotRun before)
    files,       \* the dated output folder: name -> [readable, content]
    written,     \* names written by write_output_file in this invocation
    sent,        \* texts delivered to the notification sink, in order
    summaries,   \* main: local summaries (input of the aggregate pass)
    arg,         \* input of the function applied on its own (function specifications)
    result,      \* its return value
    called       \* whether it has been applied

pipeVars == <<cfg, pc, i, rpc, posts, posts_text, summary, resp, llm_in, ret,
              files, written, sent, summaries>>
fnVars == <<arg, result, called>>
vars == <<cfg, pc, i, rpc, posts, posts_text, summary, resp, llm_in, ret,
          files, written, sent, summaries, arg, result, called>>

---------------------------------------------------------------------------
(* Program constants *)

SUBREDDIT_MAX_POSTS == 8
POST_MAX_COMMENTS == 21
SELFTEXT_FETCH_CHARS == 1000
SELFTEXT_DIGEST_CHARS == 1500
max_chars == 3000

(* Bounds of the model *)

NumSources == 2      \* how many of the configured sources main() iterates
MaxTree == 24        \* longest flattened comment list given to the flattener
MaxPosts == 3        \* longest post list given to the formatter
MaxFiles == 3        \* most artifacts in a folder given to the aggregation read

---------------------------------------------------------------------------
(* Python string and list primitives *)

Min(a, b) == IF a < b THEN a ELSE b

\* s[:n]
Take(s, n) == SubSeq(s, 1, Min(n, Len(s)))

\* s[1:]
Drop1(s) == SubSeq(s, 2, Len(s))

Reverse(s) == [k \in 1..Len(s) |-> s[Len(s) + 1 - k]]

Whitespace == {" ", "\n", "\t", "\r"}

RECURSIVE LStrip(_)
LStrip(s) ==
    IF s # <<>> /\ Head(s) \in Whitespace THEN LStrip(Tail(s)) ELSE s

RECURSIVE RStrip(_)
RStrip(s) ==
    IF s # <<>> /\ s[Len(s)] \in Whitespace
    THEN RStrip(SubSeq(s, 1, Len(s) - 1))
    ELSE s

\* str.strip()
Strip(s) == RStrip(LStrip(s))

\* str.splitlines(): a line break ends a line; no empty last line
RECURSIVE SplitAcc(_, _, _)
SplitAcc(s, cur, acc) ==
    IF s = <<>> THEN (IF cur = <<>> THEN acc ELSE Append(acc, cur))
    ELSE IF Head(s) = "\n" THEN SplitAcc(Tail(s), <<>>, Append(acc, cur))
    ELSE SplitAcc(Tail(s), Append(cur, Head(s)), acc)

splitlines(s) == SplitAcc(s, <<>>, <<>>)

\* sep.join(parts)
RECURSIVE join(_, _)
join(sep, parts) ==
    IF parts = <<>> THEN <<>>
    ELSE IF Len(parts) = 1 THEN parts[1]
    ELSE parts[1] \o sep \o join(sep, Tail(parts))

\* code point order of the characters that occur in names
Alphabet ==
    <<"-", ".", "B", "E", "M", "S",
      "a", "b", "c", "d", "e", "f", "g", "h", "i", "j", "k", "l", "m",
      "n", "o", "p", "q", "r", "s", "t", "u", "v", "w", "x", "y", "z">>

Ord(c) == CHOOSE k \in 1..Len(Alphabet) : Alphabet[k] = c

\* a < b on str
LexLess(a, b) ==
    \E k \in 1..(Min(Len(a), Len(b)) + 1) :
        /\ \A j \in 1..(k - 1) : a[j] = b[j]
        /\ \/ k > Len(a) /\ k <= Len(b)
           \/ k <= Len(a) /\ k <= Len(b) /\ Ord(a[k]) < Ord(b[k])

---------------------------------------------------------------------------
(* CommentFlattener: RedditSummarizer.get_submission_comments *)

NoFail == 0 - 1

\* getattr(c, 'body', None): an entry without a body has has = FALSE
NoBody == [has |-> FALSE, text |-> <<>>]
Body(t) == [has |-> TRUE, text |-> t]

\* " ".join(body.splitlines()).strip()
NormalizeBody(text) == Strip(join(<<" ">>, splitlines(text)))

\* The for loop of lines 63-71.  k counts the iterations; iteration `fail`
\* raises, and the except clause returns what was collected so far.
RECURSIVE CommentLoop(_, _, _, _)
CommentLoop(rest, comments, k, fail) ==
    IF rest = <<>> THEN comments
    ELSE IF k = fail THEN comments
    ELSE LET body == Head(rest) IN
        IF ~body.has \/ body.text = <<>>
        THEN CommentLoop(Tail(rest), comments, k + 1, fail)
        ELSE LET c2 == Append(comments, NormalizeBody(body.text)) IN
            IF Len(c2) >= POST_MAX_COMMENTS THEN c2
            ELSE CommentLoop(Tail(rest), c2, k + 1, fail)

get_submission_comments_keep_first(submission) ==
    IF submission.fail = 0 THEN <<>>
    ELSE CommentLoop(submission.comments, <<>>, 1, submission.fail)

\* submission.comments is comments.list() after replace_more; fail = 0 means
\* replace_more (or list) raised, fail = k > 0 that iteration k raised.
get_submission_comments(submission) ==
    IF submission.fail = 0 THEN <<>>
    ELSE CommentLoop(Drop1(submission.comments), <<>>, 1, submission.fail)

---------------------------------------------------------------------------
(* PostCollector: RedditSummarizer.get_today_posts *)

SecondsPerHour == 60 * 60

\* (datetime.utcnow() - timedelta(hours=24)).timestamp()
cutoff_ts(now) == now - 24 * SecondsPerHour

\* the dict appended at lines 84-92
PostOf(submission) ==
    [title |-> submission.title,
     score |-> submission.score,
     num_comments |-> submission.num_comments,
     selftext |-> IF submission.selftext # <<>>
                  THEN Take(submission.selftext, SELFTEXT_FETCH_CHARS)
                  ELSE <<>>,
     shortlink |-> submission.shortlink,
     created_utc |-> submission.created_utc,
     comments |-> get_submission_comments(submission)]

\* the for loop of lines 80-92 over the page subreddit.new() returned
RECURSIVE CollectLoop(_, _, _)
CollectLoop(page, now, acc) ==
    IF page = <<>> THEN acc
    ELSE IF Head(page).created_utc >= cutoff_ts(now)
         THEN CollectLoop(Tail(page), now, Append(acc, PostOf(Head(page))))
         ELSE CollectLoop(Tail(page), now, acc)

get_today_posts(page, now) ==
    CollectLoop(Take(page, SUBREDDIT_MAX_POSTS), now, <<>>)

---------------------------------------------------------------------------
(* DigestFormatter: RedditSummarizer.prepare_posts_for_summary *)

NO_POSTS == <<"No", " ", "posts", " ", "found", " ", "for", " ", "today.">>

\* list.sort(): stable, ascending by score (insertion after the last element
\* whose score is not greater)
RECURSIVE InsertByScore(_, _)
InsertByScore(sorted, p) ==
    IF sorted = <<>> THEN <<p>>
    ELSE IF sorted[Len(sorted)].score <= p.score THEN Append(sorted, p)
    ELSE Append(InsertByScore(SubSeq(sorted, 1, Len(sorted) - 1), p),
                sorted[Len(sorted)])

RECURSIVE StableSortAsc(_, _)
StableSortAsc(list, acc) ==
    IF list = <<>> THEN acc
    ELSE StableSortAsc(Tail(list), InsertByScore(acc, Head(list)))

posts_sorted_unstable(ps) == Reverse(StableSortAsc(ps, <<>>))

\* sorted(posts, key=score, reverse=True): CPython reverses the list, sorts
\* it stably in ascending order and reverses the result
posts_sorted(ps) == Reverse(StableSortAsc(Reverse(ps), <<>>))

CommentSeparator == <<" ", "\n", "-", " ">>

\* lines 110-117
CommentsBlock(post) ==
    IF post.comments = <<>> THEN <<>>
    ELSE LET joined == join(CommentSeparator, post.comments)
             combined == IF Len(joined) > max_chars
                         THEN Take(joined, max_chars) \o <<"...">>
                         ELSE joined
         IN <<"Comments:", "\n", "-", " ">> \o combined \o <<"\n">>

\* lines 102-118: the block of the post ranked n
PostBlock(n, post) ==
    <<"~~~POST #", ToString(n), " ", "START", "\n">>
    \o <<"Title:", " ", post.title, "\n">>
    \o <<"Score:", " ", ToString(post.score), "\n">>
    \o <<"Comments:", " ", ToString(post.num_comments), "\n">>
    \o <<"Link:", " ", post.shortlink, "\n">>
    \o (IF post.selftext # <<>>
        THEN <<"Post", " ", "content:", " ">>
             \o Take(post.selftext, SELFTEXT_DIGEST_CHARS)
             \o <<"...", "\n", "\n">>
        ELSE <<>>)
    \o CommentsBlock(post)
    \o <<"~~~POST #", ToString(n), " ", "END", "\n", "\n">>

RECURSIVE PostBlocks(_, _)
PostBlocks(sorted, n) ==
    IF n > Len(sorted) THEN <<>>
    ELSE PostBlock(n, sorted[n]) \o PostBlocks(sorted, n + 1)

prepare_posts_for_summary_empty(subreddit, ps) ==
    IF ps = <<>> THEN <<>>
    ELSE <<"Today's", " ", "Reddit", " ", "r/">> \o subreddit
         \o <<" ", "posts:", "\n", "\n">>
         \o PostBlocks(posts_sorted(ps), 1)

prepare_posts_for_summary(subreddit, ps) ==
    IF ps = <<>> THEN NO_POSTS
    ELSE <<"Today's", " ", "Reddit", " ", "r/">> \o subreddit
         \o <<" ", "posts:", "\n", "\n">>
         \o PostBlocks(posts_sorted(ps), 1)

---------------------------------------------------------------------------
(* Aggregation read: RedditSummarizer.collect_summaries_in_folder *)

SummarySuffix == <<"-", "s", "u", "m", "m", "a", "r", "y", ".", "t", "x", "t">>
TxtSuffix == <<".", "t", "x", "t">>

EndsWith(name, suffix) ==
    /\ Len(name) >= Len(suffix)
    /\ SubSeq(name, Len(name) - Len(suffix) + 1, Len(name)) = suffix

\* glob.glob(os.path.join(folder, "*-summary.txt")): fnmatch on the name;
\* a name that starts with "." is hidden from a pattern that starts with "*"
glob_summaries(folder) ==
    {n \in DOMAIN folder :
        /\ EndsWith(n, SummarySuffix)
        /\ ~(n # <<>> /\ Head(n) = ".")}

\* sorted(paths): the paths share the folder prefix, so by name
RECURSIVE sorted_names(_)
sorted_names(names) ==
    IF names = {} THEN <<>>
    ELSE LET least == CHOOSE n \in names :
                          \A m \in names \ {n} : LexLess(n, m)
         IN <<least>> \o sorted_names(names \ {least})

\* lines 144-149: open/read raises for an unreadable path, which is skipped
RECURSIVE ReadChunks(_, _)
ReadChunks(folder, paths) ==
    IF paths = <<>> THEN <<>>
    ELSE IF folder[Head(paths)].readable
         THEN <<Strip(folder[Head(paths)].content)>>
              \o ReadChunks(folder, Tail(paths))
         ELSE ReadChunks(folder, Tail(paths))

RECURSIVE NonEmpty(_)
NonEmpty(chunks) ==
    IF chunks = <<>> THEN <<>>
    ELSE IF Head(chunks) # <<>> THEN <<Head(chunks)>> \o NonEmpty(Tail(chunks))
    ELSE NonEmpty(Tail(chunks))

collect_summaries_in_folder_unsorted(folder) ==
    join(<<"\n", "\n">>,
         NonEmpty(ReadChunks(folder, Reverse(sorted_names(glob_summaries(folder))))))

collect_summaries_in_folder(folder) ==
    join(<<"\n", "\n">>,
         NonEmpty(ReadChunks(folder, sorted_names(glob_summaries(folder)))))

---------------------------------------------------------------------------
(* The configured sources (main, line 191) *)

wallstreetbets == <<"w", "a", "l", "l", "s", "t", "r", "e", "e", "t", "b", "e", "t", "s">>
stocks == <<"s", "t", "o", "c", "k", "s">>
investing == <<"i", "n", "v", "e", "s", "t", "i", "n", "g">>
swingtrading == <<"s", "w", "i", "n", "g", "t", "r", "a", "d", "i", "n", "g">>
StockMarket == <<"S", "t", "o", "c", "k", "M", "a", "r", "k", "e", "t">>
Economics == <<"E", "c", "o", "n", "o", "m", "i", "c", "s">>

ConfiguredSources ==
    <<wallstreetbets, stocks, investing, swingtrading, StockMarket, Economics>>

\* the prefix of the configured list that the model iterates
SOURCES == Take(ConfiguredSources, NumSources)

---------------------------------------------------------------------------
(* Values of the pipeline variables while a single function is applied *)

NotRun == <<"<not run>">>
NoFiles == [n \in {} |-> [readable |-> TRUE, content |-> <<>>]]

PipeIdle ==
    /\ cfg = TRUE
    /\ pc = "idle"
    /\ i = 0
    /\ rpc = "none"
    /\ posts = <<>>
    /\ posts_text = <<>>
    /\ summary = <<>>
    /\ resp = "none"
    /\ llm_in = <<>>
    /\ ret = <<>>
    /\ files = NoFiles
    /\ written = {}
    /\ sent = <<>>
    /\ summaries = <<>>

---------------------------------------------------------------------------
(* get_submission_comments applied on its own: every bounded comment list *)

C(k) == "c" \o ToString(k)

\* the k-th entry of a flattened comment list, by kind
Entry(k, kind) ==
    CASE kind = "plain" -> Body(<<C(k)>>)
      [] kind = "multiline" -> Body(<<C(k), "\n", "x", "\n", "\n", "y">>)
      [] kind = "padded" -> Body(<<" ", C(k), "\n">>)
      [] kind = "blank" -> Body(<<" ", "\n">>)
      [] kind = "empty" -> Body(<<>>)
      [] OTHER -> NoBody

KindPatterns ==
    << <<"plain">>,
       <<"none", "plain">>,
       <<"plain", "none">>,
       <<"multiline", "empty", "plain">>,
       <<"padded", "blank", "none", "plain">>,
       <<"none", "empty">>,
       <<"plain", "plain", "plain", "plain", "plain", "plain", "plain",
         "plain", "plain", "plain", "plain", "plain", "none">> >>

TreeOf(n, p) ==
    [k \in 1..n |->
        Entry(k, KindPatterns[p][((k - 1) % Len(KindPatterns[p])) + 1])]

InitComments ==
    /\ PipeIdle
    /\ \E n \in 0..MaxTree, p \in 1..Len(KindPatterns) :
          \E f \in {NoFail} \cup (0..n) :
              arg = [comments |-> TreeOf(n, p), fail |-> f]
    /\ result = <<>>
    /\ called = FALSE

FlattenComments ==
    /\ ~called
    /\ result' = get_submission_comments(arg)
    /\ called' = TRUE
    /\ UNCHANGED <<arg, pipeVars>>

NextComments == FlattenComments

SpecComments == InitComments /\ [][NextComments]_vars

---------------------------------------------------------------------------
(* prepare_posts_for_summary applied on its own: every bounded post list *)

Scores == {5, 20, 100}

SelftextChoices == {<<>>, <<"b", "o", "d", "y">>}
CommentChoices == {<<>>, << <<"u", "p">>, <<"d", "o", "w", "n">> >>}

\* the k-th collected post; its title names its position in the input
MkPost(k, c) ==
    [title |-> "post" \o ToString(k),
     score |-> c[1],
     num_comments |-> Len(c[3]),
     selftext |-> c[2],
     shortlink |-> "https://redd.it/" \o ToString(k),
     created_utc |-> 0,
     comments |-> c[3]]

InitFormat ==
    /\ PipeIdle
    /\ \E n \in 0..MaxPosts :
          \E f \in [1..n -> Scores \X SelftextChoices \X CommentChoices] :
              arg = [k \in 1..n |-> MkPost(k, f[k])]
    /\ result = <<>>
    /\ called = FALSE

FormatDigest ==
    /\ ~called
    /\ result' = prepare_posts_for_summary(stocks, arg)
    /\ called' = TRUE
    /\ UNCHANGED <<arg, pipeVars>>

NextFormat == FormatDigest

SpecFormat == InitFormat /\ [][NextFormat]_vars

---------------------------------------------------------------------------
(* collect_summaries_in_folder applied on its own: every bounded folder *)

CandidateNames ==
    { <<"a">> \o SummarySuffix,
      <<"b">> \o SummarySuffix,
      <<"a", "b">> \o SummarySuffix,
      <<"B">> \o SummarySuffix,
      SummarySuffix,
      <<".", "h">> \o SummarySuffix,
      <<"a">> \o TxtSuffix,
      <<"s", "u", "m", "m", "a", "r", "y">> \o TxtSuffix }

FileKinds == {"plain", "padded", "blank", "empty", "unreadable"}

FileOf(name, kind) ==
    CASE kind = "plain" ->
            [readable |-> TRUE, content |-> <<"#">> \o name]
      [] kind = "padded" ->
            [readable |-> TRUE,
             content |-> <<"\n", " ", "#">> \o name \o <<"\n", "\n", "x", " ", "\n">>]
      [] kind = "blank" -> [readable |-> TRUE, content |-> <<" ", "\n">>]
      [] kind = "empty" -> [readable |-> TRUE, content |-> <<>>]
      [] OTHER -> [readable |-> FALSE, content |-> <<"#">> \o name]

InitCollect ==
    /\ PipeIdle
    /\ \E D \in SUBSET CandidateNames :
          /\ Cardinality(D) <= MaxFiles
          /\ \E kinds \in [D -> FileKinds] :
                arg = [n \in D |-> FileOf(n, kinds[n])]
    /\ result = <<>>
    /\ called = FALSE

CollectSummaries ==
    /\ ~called
    /\ result' = collect_summaries_in_folder(arg)
    /\ called' = TRUE
    /\ UNCHANGED <<arg, pipeVars>>

NextCollect == CollectSummaries

SpecCollect == InitCollect /\ [][NextCollect]_vars

---------------------------------------------------------------------------
(* The pipeline: main() and RedditSummarizer.run() *)

Now == 2 * 24 * SecondsPerHour

DigestName(subreddit) == subreddit \o TxtSuffix
SummaryName(subreddit) == subreddit \o SummarySuffix
AggregateName == <<"s", "u", "m", "m", "a", "r", "y">> \o TxtSuffix

\* f"<chart> TODAY'S r/{subreddit} SUMMARY\n\n" (line 162)
Header(subreddit) ==
    <<"TODAY'S", " ", "r/">> \o subreddit \o <<" ", "SUMMARY", "\n", "\n">>

\* f"<chart> TODAY'S SUMMARY\n\n" (line 194)
AggregateHeader == <<"TODAY'S", " ", "SUMMARY", "\n", "\n">>

OPENAI_MESSAGE_USER == <<"\n", "Summarize", " ", "this", "...", "\n", "\n", "\n">>

PyNone == <<"<None>">>

\* what the inference backend can do with a request: answer with a text,
\* raise, or answer with a message whose content is None
BackendResponses ==
    {[kind |-> "ok", text |-> <<"1)", " ", "$TSLA", " ", "up", "\n">>],
     [kind |-> "error", text |-> <<"quota", " ", "exceeded">>],
     [kind |-> "error", text |-> <<>>],
     [kind |-> "none", text |-> <<>>]}

summarize_with_openai_reraises(response) ==
    CASE response.kind = "ok" -> response.text
      [] OTHER -> PyNone

\* lines 123-134; response.text is str(e) when the call raised
summarize_with_openai(response) ==
    CASE response.kind = "ok" -> response.text
      [] response.kind = "none" -> PyNone
      [] OTHER -> <<"Error", " ", "generating", " ", "summary:", " ">>
                  \o response.text

\* open(path, "w") and f.write(text)
write_output_file(folder, name, text) ==
    [n \in DOMAIN folder \cup {name} |->
        IF n = name THEN [readable |-> TRUE, content |-> text] ELSE folder[n]]

\* open(path, "w") succeeded and f.write raised: the file is left empty
truncate_output_file(folder, name) ==
    [n \in DOMAIN folder \cup {name} |->
        IF n = name THEN [readable |-> TRUE, content |-> <<>>] ELSE folder[n]]

\* Pages subreddit.new(limit=8) can return
FreshSubmission ==
    [title |-> "fresh", score |-> 20, num_comments |-> 3,
     selftext |-> <<"b", "o", "d", "y">>, shortlink |-> "https://redd.it/1",
     created_utc |-> cutoff_ts(Now),
     comments |-> <<Body(<<"a", "d">>), Body(<<"u", "p", "\n", "!">>), NoBody>>,
     fail |-> NoFail]

OldSubmission ==
    [title |-> "old", score |-> 100, num_comments |-> 0,
     selftext |-> <<>>, shortlink |-> "https://redd.it/0",
     created_utc |-> cutoff_ts(Now) - 1,
     comments |-> <<>>,
     fail |-> NoFail]

Pages == {<<>>, <<OldSubmission>>, <<FreshSubmission, OldSubmission>>}

\* Folders main() can find at output/<date>: nothing, the artifacts of an
\* earlier invocation of the same day, or entries that cannot be read
OldSummary(subreddit) ==
    [readable |-> TRUE, content |-> Header(subreddit) \o <<"old", " ", "news">>]

InitialFolders ==
    {NoFiles,
     [n \in {SummaryName(SOURCES[1])} |-> OldSummary(SOURCES[1])],
     [n \in {<<"o", "l", "d">> \o SummarySuffix, AggregateName} |->
        IF n = AggregateName
        THEN [readable |-> TRUE, content |-> AggregateHeader \o <<"old">>]
        ELSE [readable |-> FALSE, content |-> <<"o", "l", "d">>]]}

Init ==
    /\ cfg \in BOOLEAN
    /\ pc = "start"
    /\ i = 0
    /\ rpc = "none"
    /\ posts = <<>>
    /\ posts_text = <<>>
    /\ summary = <<>>
    /\ resp = "none"
    /\ llm_in = <<>>
    /\ ret = [k \in 1..Len(SOURCES) |-> NotRun]
    /\ files \in InitialFolders
    /\ written = {}
    /\ sent = <<>>
    /\ summaries = <<>>
    /\ arg = <<>>
    /\ result = <<>>
    /\ called = FALSE

\* lines 176-185: a missing variable ends main() before any source is run
CheckConfigMissing ==
    /\ pc = "start"
    /\ ~cfg
    /\ pc' = "aborted"
    /\ UNCHANGED <<cfg, i, rpc, posts, posts_text, summary, resp, llm_in, ret,
                   files, written, sent, summaries, fnVars>>

\* lines 186-192: the first run() starts
CheckConfigPresent ==
    /\ pc = "start"
    /\ cfg
    /\ pc' = "run"
    /\ i' = 1
    /\ rpc' = "fetch"
    /\ UNCHANGED <<cfg, posts, posts_text, summary, resp, llm_in, ret,
                   files, written, sent, summaries, fnVars>>

\* line 157: get_today_posts returns
FetchPosts ==
    /\ pc = "run" /\ rpc = "fetch"
    /\ \E page \in Pages : posts' = get_today_posts(page, Now)
    /\ rpc' = "format"
    /\ UNCHANGED <<cfg, pc, i, posts_text, summary, resp, llm_in, ret,
                   files, written, sent, summaries, fnVars>>

\* line 157: the page fetch raises
FetchRaises ==
    /\ pc = "run" /\ rpc = "fetch"
    /\ rpc' = "raised"
    /\ UNCHANGED <<cfg, pc, i, posts, posts_text, summary, resp, llm_in, ret,
                   files, written, sent, summaries, fnVars>>

\* line 158: prepare_posts_for_summary returns
FormatPosts ==
    /\ pc = "run" /\ rpc = "format"
    /\ posts_text' = prepare_posts_for_summary(SOURCES[i], posts)
    /\ rpc' = "summarize"
    /\ UNCHANGED <<cfg, pc, i, posts, summary, resp, llm_in, ret,
                   files, written, sent, summaries, fnVars>>

\* line 158: sorting or formatting a non-empty list raises (a field of a
\* post that does not compare or index); the empty list returns at line 98
FormatRaises ==
    /\ pc = "run" /\ rpc = "format"
    /\ posts # <<>>
    /\ rpc' = "raised"
    /\ UNCHANGED <<cfg, pc, i, posts, posts_text, summary, resp, llm_in, ret,
                   files, written, sent, summaries, fnVars>>

\* lines 162-163: summarize_with_openai returns a str
SummarizeReturns ==
    /\ pc = "run" /\ rpc = "summarize"
    /\ \E response \in BackendResponses :
          /\ summarize_with_openai(response) # PyNone
          /\ resp' = response.kind
          /\ summary' = Header(SOURCES[i]) \o summarize_with_openai(response)
    /\ llm_in' = OPENAI_MESSAGE_USER \o posts_text
    /\ rpc' = "write_digest"
    /\ UNCHANGED <<cfg, pc, i, posts, posts_text, ret,
                   files, written, sent, summaries, fnVars>>

\* lines 162-163: it returns None and summary += None raises TypeError
SummarizeNoContent ==
    /\ pc = "run" /\ rpc = "summarize"
    /\ \E response \in BackendResponses :
          /\ summarize_with_openai(response) = PyNone
          /\ resp' = response.kind
    /\ summary' = Header(SOURCES[i])
    /\ llm_in' = OPENAI_MESSAGE_USER \o posts_text
    /\ rpc' = "raised"
    /\ UNCHANGED <<cfg, pc, i, posts, posts_text, ret,
                   files, written, sent, summaries, fnVars>>

WriteDigest_skips_summary ==
    /\ pc = "run" /\ rpc = "write_digest"
    /\ files' = write_output_file(files, DigestName(SOURCES[i]), posts_text)
    /\ written' = written \cup {DigestName(SOURCES[i])}
    /\ rpc' = "notify"
    /\ UNCHANGED <<cfg, pc, i, posts, posts_text, summary, resp, llm_in, ret,
                   sent, summaries, fnVars>>

\* line 164
WriteDigest ==
    /\ pc = "run" /\ rpc = "write_digest"
    /\ files' = write_output_file(files, DigestName(SOURCES[i]), posts_text)
    /\ written' = written \cup {DigestName(SOURCES[i])}
    /\ rpc' = "write_summary"
    /\ UNCHANGED <<cfg, pc, i, posts, posts_text, summary, resp, llm_in, ret,
                   sent, summaries, fnVars>>

WriteDigestRaises_swallowed ==
    /\ pc = "run" /\ rpc = "write_digest"
    /\ rpc' = "write_summary"
    /\ UNCHANGED <<cfg, pc, i, posts, posts_text, summary, resp, llm_in, ret,
                   files, written, sent, summaries, fnVars>>

\* line 164 raises: in open (the folder is unchanged) or in write (the file
\* is left empty)
WriteDigestRaises ==
    /\ pc = "run" /\ rpc = "write_digest"
    /\ \/ files' = files
       \/ files' = truncate_output_file(files, DigestName(SOURCES[i]))
    /\ rpc' = "raised"
    /\ UNCHANGED <<cfg, pc, i, posts, posts_text, summary, resp, llm_in, ret,
                   written, sent, summaries, fnVars>>

\* line 165
WriteSummary ==
    /\ pc = "run" /\ rpc = "write_summary"
    /\ files' = write_output_file(files, SummaryName(SOURCES[i]), summary)
    /\ written' = written \cup {SummaryName(SOURCES[i])}
    /\ rpc' = "notify"
    /\ UNCHANGED <<cfg, pc, i, posts, posts_text, summary, resp, llm_in, ret,
                   sent, summaries, fnVars>>

\* line 165 raises
WriteSummaryRaises ==
    /\ pc = "run" /\ rpc = "write_summary"
    /\ \/ files' = files
       \/ files' = truncate_output_file(files, SummaryName(SOURCES[i]))
    /\ rpc' = "raised"
    /\ UNCHANGED <<cfg, pc, i, posts, posts_text, summary, resp, llm_in, ret,
                   written, sent, summaries, fnVars>>

RunReturns_stops_early(value) ==
    /\ ret' = [ret EXCEPT ![i] = value]
    /\ i' = i + 1
    /\ pc' = "collect" /\ rpc' = "none"
    /\ posts' = <<>>
    /\ posts_text' = <<>>
    /\ summary' = <<>>
    /\ resp' = "none"
    /\ llm_in' = <<>>

\* run() has returned value: the for loop of line 191 goes to the next
\* source, or main() goes on to line 193; the locals of run() are gone
RunReturns(value) ==
    /\ ret' = [ret EXCEPT ![i] = value]
    /\ i' = i + 1
    /\ IF i < Len(SOURCES)
       THEN pc' = "run" /\ rpc' = "fetch"
       ELSE pc' = "collect" /\ rpc' = "none"
    /\ posts' = <<>>
    /\ posts_text' = <<>>
    /\ summary' = <<>>
    /\ resp' = "none"
    /\ llm_in' = <<>>

\* lines 167-168: the notification is sent and run() returns the summary
Notify ==
    /\ pc = "run" /\ rpc = "notify"
    /\ sent' = Append(sent, summary)
    /\ RunReturns(summary)
    /\ UNCHANGED <<cfg, files, written, summaries, fnVars>>

\* line 167: requests.post raises
NotifyRaises ==
    /\ pc = "run" /\ rpc = "notify"
    /\ rpc' = "raised"
    /\ UNCHANGED <<cfg, pc, i, posts, posts_text, summary, resp, llm_in, ret,
                   files, written, sent, summaries, fnVars>>

RunExcept_propagates ==
    /\ pc = "run" /\ rpc = "raised"
    /\ pc' = "crashed"
    /\ UNCHANGED <<cfg, i, rpc, posts, posts_text, summary, resp, llm_in, ret,
                   files, written, sent, summaries, fnVars>>

\* lines 169-171: the exception is caught and run() returns ""
RunExcept ==
    /\ pc = "run" /\ rpc = "raised"
    /\ RunReturns(<<>>)
    /\ UNCHANGED <<cfg, files, written, sent, summaries, fnVars>>

\* line 193
Collect ==
    /\ pc = "collect"
    /\ summaries' = collect_summaries_in_folder(files)
    /\ pc' = "agg_summarize"
    /\ UNCHANGED <<cfg, i, rpc, posts, posts_text, summary, resp, llm_in, ret,
                   files, written, sent, fnVars>>

\* lines 194-195: summarize_with_openai returns a str
AggSummarizeReturns ==
    /\ pc = "agg_summarize"
    /\ \E response \in BackendResponses :
          /\ summarize_with_openai(response) # PyNone
          /\ resp' = response.kind
          /\ summary' = AggregateHeader \o summarize_with_openai(response)
    /\ llm_in' = OPENAI_MESSAGE_USER \o summaries
    /\ pc' = "agg_write"
    /\ UNCHANGED <<cfg, i, rpc, posts, posts_text, ret,
                   files, written, sent, summaries, fnVars>>

\* lines 194-195: it returns None; the TypeError leaves main()
AggSummarizeNoContent ==
    /\ pc = "agg_summarize"
    /\ \E response \in BackendResponses :
          /\ summarize_with_openai(response) = PyNone
          /\ resp' = response.kind
    /\ summary' = AggregateHeader
    /\ llm_in' = OPENAI_MESSAGE_USER \o summaries
    /\ pc' = "crashed"
    /\ UNCHANGED <<cfg, i, rpc, posts, posts_text, ret,
                   files, written, sent, summaries, fnVars>>

\* line 196
AggWrite ==
    /\ pc = "agg_write"
    /\ files' = write_output_file(files, AggregateName, summary)
    /\ written' = written \cup {AggregateName}
    /\ pc' = "agg_send"
    /\ UNCHANGED <<cfg, i, rpc, posts, posts_text, summary, resp, llm_in, ret,
                   sent, summaries, fnVars>>

\* line 196 raises; nothing in main() catches it
AggWriteRaises ==
    /\ pc = "agg_write"
    /\ \/ files' = files
       \/ files' = truncate_output_file(files, AggregateName)
    /\ pc' = "crashed"
    /\ UNCHANGED <<cfg, i, rpc, posts, posts_text, summary, resp, llm_in, ret,
                   written, sent, summaries, fnVars>>

\* line 197
AggSend ==
    /\ pc = "agg_send"
    /\ sent' = Append(sent, summary)
    /\ pc' = "done"
    /\ UNCHANGED <<cfg, i, rpc, posts, posts_text, summary, resp, llm_in, ret,
                   files, written, summaries, fnVars>>

\* line 197 raises; nothing in main() catches it
AggSendRaises ==
    /\ pc = "agg_send"
    /\ pc' = "crashed"
    /\ UNCHANGED <<cfg, i, rpc, posts, posts_text, summary, resp, llm_in, ret,
                   files, written, sent, summaries, fnVars>>

Next ==
    \/ CheckConfigMissing
    \/ CheckConfigPresent
    \/ FetchPosts
    \/ FetchRaises
    \/ FormatPosts
    \/ FormatRaises
    \/ SummarizeReturns
    \/ SummarizeNoContent
    \/ WriteDigest
    \/ WriteDigestRaises
    \/ WriteSummary
    \/ WriteSummaryRaises
    \/ Notify
    \/ NotifyRaises
    \/ RunExcept
    \/ Collect
    \/ AggSummarizeReturns
    \/ AggSummarizeNoContent
    \/ AggWrite
    \/ AggWriteRaises
    \/ AggSend
    \/ AggSendRaises

Spec == Init /\ [][Next]_vars

---------------------------------------------------------------------------
(* Properties of the three functions *)

\* the r-th smallest element of a set of positions
Nth(S, r) == CHOOSE k \in S : Cardinality({e \in S : e <= k}) = r

Positions(text, tok) == {j \in 1..Len(text) : text[j] = tok}

\* positions, in the traversal, of the entries after the first that have a
\* non-empty body
EligibleIdx(tree) ==
    {k \in 2..Len(tree) : tree[k].has /\ tree[k].text # <<>>}

\* the returned bodies are the first eligible entries, in traversal order
IsEligiblePrefix(tree, bodies) ==
    /\ Len(bodies) <= Cardinality(EligibleIdx(tree))
    /\ \A j \in 1..Len(bodies) :
           bodies[j] = NormalizeBody(tree[Nth(EligibleIdx(tree), j)].text)

\* C8 as stated: at most POST_MAX_COMMENTS bodies are returned, they are the
\* eligible entries in traversal order with the first traversed entry dropped,
\* and fewer than POST_MAX_COMMENTS are returned only if the list has fewer
\* than POST_MAX_COMMENTS eligible entries.
C8_FewerOnlyIfFewerEligible ==
    called =>
        /\ Len(result) <= POST_MAX_COMMENTS
        /\ IsEligiblePrefix(arg.comments, result)
        /\ (Len(result) < POST_MAX_COMMENTS
              => Cardinality(EligibleIdx(arg.comments)) < POST_MAX_COMMENTS)

\* C8 amended: as above, but fewer than POST_MAX_COMMENTS bodies are also
\* returned when resolving or traversing the comments raised; without a
\* failure exactly min(POST_MAX_COMMENTS, eligible entries) are returned.
C8_FewerOnlyIfFewerEligibleOrRaised ==
    called =>
        /\ Len(result) <= POST_MAX_COMMENTS
        /\ IsEligiblePrefix(arg.comments, result)
        /\ (Len(result) < POST_MAX_COMMENTS
              => \/ Cardinality(EligibleIdx(arg.comments)) < POST_MAX_COMMENTS
                 \/ arg.fail # NoFail)
        /\ (arg.fail = NoFail
              => Len(result) = Min(POST_MAX_COMMENTS,
                                   Cardinality(EligibleIdx(arg.comments))))

\* a list with an entry without a body and more than POST_MAX_COMMENTS
\* eligible entries was flattened to exactly POST_MAX_COMMENTS bodies
C8_Witness ==
    /\ called
    /\ arg.fail = NoFail
    /\ \E k \in 2..Len(arg.comments) : ~arg.comments[k].has
    /\ Cardinality(EligibleIdx(arg.comments)) > POST_MAX_COMMENTS
    /\ Len(result) = POST_MAX_COMMENTS

\* the input position of the post whose block is ranked r in a digest
RankedInput(ps, text, r) ==
    LET title == text[Nth(Positions(text, "Title:"), r) + 2]
    IN CHOOSE k \in 1..Len(ps) : ps[k].title = title

\* the sequence number that the r-th block start marker carries
BlockNumber(text, r) == text[Nth(Positions(text, "START"), r) - 2]

\* C7: for a non-empty post list the digest holds one block per post,
\* numbered 1..n, in descending score order, posts of equal score in their
\* input order.
C7_DescendingStable ==
    (called /\ arg # <<>>) =>
        /\ Cardinality(Positions(result, "Title:")) = Len(arg)
        /\ Cardinality(Positions(result, "START")) = Len(arg)
        /\ \A r \in 1..Len(arg) : BlockNumber(result, r) = ToString(r)
        /\ \A r, q \in 1..Len(arg) :
               r < q =>
                   LET a == RankedInput(arg, result, r)
                       b == RankedInput(arg, result, q)
                   IN \/ arg[a].score > arg[b].score
                      \/ arg[a].score = arg[b].score /\ a < b

\* scores [5, 20, 20] were formatted in the order post2, post3, post1
C7_Witness ==
    /\ called
    /\ Len(arg) = 3
    /\ <<arg[1].score, arg[2].score, arg[3].score>> = <<5, 20, 20>>
    /\ <<RankedInput(arg, result, 1), RankedInput(arg, result, 2),
         RankedInput(arg, result, 3)>> = <<2, 3, 1>>

\* the names of a set in ascending lexicographic order
Ascending(names) ==
    CHOOSE s \in [1..Cardinality(names) -> names] :
        \A a, b \in 1..Cardinality(names) : a < b => LexLess(s[a], s[b])

ReadableSummaries(folder) ==
    {n \in DOMAIN folder :
        EndsWith(n, SummarySuffix) /\ Head(n) # "." /\ folder[n].readable}

\* C6 as stated: the result is the contents of the readable artifacts that
\* match the summary pattern, in lexicographic order of name, with one blank
\* line between consecutive items.
C6_RawContentsJoined ==
    called =>
        LET order == Ascending(ReadableSummaries(arg))
        IN result = join(<<"\n", "\n">>,
                         [k \in 1..Len(order) |-> arg[order[k]].content])

\* C6 amended: each content is stripped of leading and trailing whitespace,
\* and an artifact that is empty after stripping is left out.
C6_StrippedNonBlankJoined ==
    called =>
        LET kept == {n \in ReadableSummaries(arg) : Strip(arg[n].content) # <<>>}
            order == Ascending(kept)
        IN result = join(<<"\n", "\n">>,
                         [k \in 1..Len(order) |-> Strip(arg[order[k]].content)])

\* three matching artifacts, one of them unreadable, were read: the other
\* two are in the result, separated by one blank line
C6_Witness ==
    /\ called
    /\ \E n \in DOMAIN arg : EndsWith(n, SummarySuffix) /\ ~arg[n].readable
    /\ \E n, m \in ReadableSummaries(arg) :
           /\ LexLess(n, m)
           /\ Strip(arg[n].content) # <<>>
           /\ Strip(arg[m].content) # <<>>
           /\ result = Strip(arg[n].content) \o <<"\n", "\n">> \o Strip(arg[m].content)

---------------------------------------------------------------------------
(* Properties of the pipeline *)

\* The stage of the run of SOURCES[k], read off the position in run() and
\* its return value: the summary (NOTIFIED) or "" (FAILED)
Stage(k) ==
    IF ret[k] # NotRun
    THEN (IF ret[k] = <<>> THEN "FAILED" ELSE "NOTIFIED")
    ELSE IF pc = "run" /\ i = k
    THEN CASE rpc = "fetch" -> "PENDING"
           [] rpc = "format" -> "COLLECTED"
           [] rpc = "summarize" -> "FORMATTED"
           [] rpc = "write_digest" -> "SUMMARIZED"
           [] rpc = "write_summary" -> "SUMMARIZED"
           [] rpc = "notify" -> "PERSISTED"
           [] OTHER -> "FAILED"
    ELSE "PENDING"

Terminal == {"NOTIFIED", "FAILED"}

StageSteps ==
    {<<"PENDING", "COLLECTED">>, <<"COLLECTED", "FORMATTED">>,
     <<"FORMATTED", "SUMMARIZED">>, <<"SUMMARIZED", "PERSISTED">>,
     <<"PERSISTED", "NOTIFIED">>}
    \cup {<<st, "FAILED">> :
            st \in {"PENDING", "COLLECTED", "FORMATTED", "SUMMARIZED", "PERSISTED"}}

\* main() is past the for loop of line 191
AfterLoop == {"collect", "agg_summarize", "agg_write", "agg_send", "done", "crashed"}

\* C1: when a step of run(A) has raised, run(A) returns "" and main() goes on
\* with the source after A (or, after the last source, with the aggregation);
\* past the loop every configured source has been run.
C1_FailureContained ==
    /\ [][(pc = "run" /\ rpc = "raised")
            => /\ ret'[i] = <<>>
               /\ i' = i + 1
               /\ IF i < Len(SOURCES)
                  THEN pc' = "run" /\ rpc' = "fetch"
                  ELSE pc' = "collect"]_vars
    /\ [](pc \in AfterLoop => \A k \in 1..Len(SOURCES) : ret[k] # NotRun)
    /\ [](pc = "run" => \A k \in 1..Len(SOURCES) : (ret[k] # NotRun <=> k < i))

\* the first source failed and the one after it was run to its notification
C1_Witness ==
    /\ pc = "done"
    /\ ret[1] = <<>>
    /\ ret[2] # <<>> /\ ret[2] # NotRun
    /\ SummaryName(SOURCES[2]) \in written

\* C2: with the configuration present no failure of a collaborator escapes
\* main() as an uncaught error, and only missing configuration stops it early.
C2_NoUncaughtError ==
    /\ (cfg => pc # "crashed")
    /\ (pc = "aborted" => ~cfg)

ErrorPrefix == <<"Error", " ", "generating", " ", "summary:", " ">>

\* the summaries a failed backend call gives the source: the header, the
\* diagnostic prefix and the description of the failure
Diagnostics(subreddit) ==
    {Header(subreddit) \o ErrorPrefix \o r.text :
        r \in {q \in BackendResponses : q.kind = "error"}}

\* C3: a failed backend call does not raise: the run goes on to the writes
\* with the non-empty diagnostic as its summary, that text is what is written
\* to <source>-summary.txt, and it is what is sent and returned.
C3_BackendErrorIsSummary ==
    /\ [][(pc = "run" /\ rpc = "summarize" /\ resp' = "error")
            => /\ rpc' = "write_digest"
               /\ summary' \in Diagnostics(SOURCES[i])
               /\ Len(summary') > Len(Header(SOURCES[i]))]_vars
    /\ []((pc = "run" /\ resp = "error")
            => /\ summary \in Diagnostics(SOURCES[i])
               /\ rpc = "notify"
                    => files[SummaryName(SOURCES[i])].content = summary)
    /\ [][(pc = "run" /\ rpc = "notify" /\ resp = "error" /\ rpc' # "raised")
            => /\ sent' = Append(sent, summary)
               /\ ret'[i] = summary]_vars

\* a diagnostic was written, sent and returned as the summary of a source
C3_Witness ==
    \E k \in 1..Len(SOURCES) :
        /\ ret[k] \in Diagnostics(SOURCES[k])
        /\ files[SummaryName(SOURCES[k])].content = ret[k]
        /\ \E j \in 1..Len(sent) : sent[j] = ret[k]

\* C4: every run moves one stage at a time along PENDING, COLLECTED,
\* FORMATTED, SUMMARIZED, PERSISTED, NOTIFIED, or from a non-terminal stage to
\* FAILED; a source's notification is sent only when both of its artifacts
\* are written, and an artifact is written only once summarization returned.
C4_StageOrder ==
    /\ [][\A k \in 1..Len(SOURCES) :
            Stage(k)' = Stage(k) \/ <<Stage(k), Stage(k)'>> \in StageSteps]_vars
    /\ [][(pc = "run" /\ sent' # sent)
            => /\ Stage(i) = "PERSISTED"
               /\ {DigestName(SOURCES[i]), SummaryName(SOURCES[i])} \subseteq written
               /\ Len(sent') = Len(sent) + 1]_vars
    /\ [][(pc = "run" /\ files' # files)
            => /\ Stage(i) = "SUMMARIZED"
               /\ resp \in {"ok", "error"}]_vars

\* one run went through every stage and the next one failed
C4_Witness ==
    /\ pc = "collect"
    /\ Stage(1) = "NOTIFIED"
    /\ Stage(2) = "FAILED"
    /\ Len(sent) = 1

\* C5: one source at a time, in the configured order; the aggregation pass
\* starts only when every run is NOTIFIED or FAILED, and from then on only
\* summary.txt is written.
C5_SequentialThenAggregate ==
    /\ [](pc = "run"
            => /\ i \in 1..Len(SOURCES)
               /\ \A k \in 1..Len(SOURCES) :
                    /\ k < i => Stage(k) \in Terminal
                    /\ k > i => Stage(k) = "PENDING")
    /\ [](pc \in AfterLoop => \A k \in 1..Len(SOURCES) : Stage(k) \in Terminal)
    /\ [][i' = i \/ i' = i + 1]_vars
    /\ [][(pc \in AfterLoop)
            => (/\ written' \ written \subseteq {AggregateName}
                /\ \A n \in DOMAIN files :
                     (n # AggregateName
                        => (n \in DOMAIN files' /\ files'[n] = files[n])))]_vars

\* the aggregate was written after both runs had ended
C5_Witness ==
    /\ pc = "done"
    /\ \A k \in 1..Len(SOURCES) : Stage(k) = "NOTIFIED"
    /\ AggregateName \in written
    /\ Len(sent) = Len(SOURCES) + 1

\* C9: with zero posts the formatting step does not fail and yields the "no
\* posts" literal; the summarizer is invoked with that literal, and
\* <source>.txt, once written, holds that literal.
C9_ZeroPostsLiteral ==
    /\ [][(pc = "run" /\ rpc = "format" /\ posts = <<>>)
            => rpc' = "summarize" /\ posts_text' = NO_POSTS]_vars
    /\ []((pc = "run" /\ posts = <<>>)
            => /\ rpc \in {"summarize", "write_digest", "write_summary", "notify"}
                    => posts_text = NO_POSTS /\ posts_text # <<>>
               /\ rpc \in {"write_digest", "write_summary", "notify"}
                    => llm_in = OPENAI_MESSAGE_USER \o NO_POSTS
               /\ rpc \in {"write_summary", "notify"}
                    => files[DigestName(SOURCES[i])].content = NO_POSTS)

\* a run with zero posts has written both artifacts and is about to notify
C9_Witness ==
    /\ pc = "run" /\ rpc = "notify"
    /\ posts = <<>>
    /\ files[DigestName(SOURCES[i])].content = NO_POSTS
    /\ SummaryName(SOURCES[i]) \in written

\* the aggregate input holds a summary of SOURCES[k]: its header occurs in it
Contributes(k) ==
    LET h == <<"TODAY'S", " ", "r/">> \o SOURCES[k] \o <<" ", "SUMMARY">>
    IN \E j \in 1..Len(summaries) :
           j + Len(h) - 1 <= Len(summaries) /\ SubSeq(summaries, j, j + Len(h) - 1) = h

AggregateRead == {"agg_summarize", "agg_write", "agg_send", "done", "crashed"}

\* C10 as stated: the aggregate input holds a summary of a source only if
\* that source's run of this invocation ended NOTIFIED.
C10_OnlyNotifiedContribute ==
    pc \in AggregateRead =>
        \A k \in 1..Len(SOURCES) : Contributes(k) => Stage(k) = "NOTIFIED"

\* C10 amended: only if the source's run of this invocation wrote both of
\* its artifacts (it ended NOTIFIED, or FAILED when the notification raised),
\* or its summary artifact of an earlier invocation is still in the folder,
\* not overwritten by this one.
C10_WrittenOrLeftOver ==
    pc \in AggregateRead =>
        \A k \in 1..Len(SOURCES) :
            Contributes(k) =>
                \/ /\ {DigestName(SOURCES[k]), SummaryName(SOURCES[k])} \subseteq written
                   /\ files[SummaryName(SOURCES[k])].content # <<>>
                \/ /\ SummaryName(SOURCES[k]) \notin written
                   /\ SummaryName(SOURCES[k]) \in DOMAIN files
                   /\ files[SummaryName(SOURCES[k])] = OldSummary(SOURCES[k])

\* a source that failed at its notification is in the aggregate input
C10_Witness ==
    /\ pc = "agg_summarize"
    /\ \E k \in 1..Len(SOURCES) :
           /\ Contributes(k)
           /\ Stage(k) = "FAILED"
           /\ SummaryName(SOURCES[k]) \in written

====
